---- MODULE Spec2Model ----
(***************************************************************************)
(* Model of the indicator clustering pipeline of process_indicators.py:    *)
(* cluster_indicators (the greedy near-duplicate merge) and main (load ->   *)
(* unique -> cluster -> topics -> mapping CSV -> join -> export).           *)
(*                                                                         *)
(* Strings are identified by positive integers; length[s] is Python's       *)
(* len(s) and tfidf[s] is the row TfidfVectorizer.fit_transform produces    *)
(* for the normalised text of s (a vector of non-negative term weights,     *)
(* all zero when the text is empty or holds stop words only).  Similarity   *)
(* thresholds are in tenths (6 is 0.6), and a similarity is compared with   *)
(* the threshold exactly (no floating-point rounding).  The embedding model *)
(* and HDBSCAN behind perform_bertopic_clustering are external: their       *)
(* outcome is a nondeterministic choice.                                    *)
(***************************************************************************)
EXTENDS Integers, Sequences, FiniteSets, TLC

\* ------------------------------------------------------------------ bounds
MaxN == 3          \* indicators in a direct call of cluster_indicators
MaxLen == 2        \* string lengths range over 1..MaxLen
MaxRows == 2       \* rows of the table main() loads

Terms == {1, 2}             \* vocabulary of the vectorizer (term ids)
Weights == {0, 1}           \* term weights of a tf-idf row
Thresholds == {0, 6, 9}     \* similarity_threshold values of a direct call

\* ------------------------------------------------------- program constants
DefaultThreshold == 6       \* similarity_threshold=0.6
NaN == 0                    \* a missing cell (pd.isna)
OutlierTopic == -1          \* BERTopic's outlier topic id
OutlierName == -2           \* the topic name "Outlier"

VARIABLES
    caller,               \* "test": cluster_indicators called directly; "main": main()
    pc,                   \* position of the run
    error,                \* the exception that ended the run, "none" otherwise
    input_table,          \* the rows of the spreadsheet main() reads
    df,                   \* main: the DataFrame
    indicators,           \* the ordered list of unique indicators (string ids)
    tfidf,                \* string id -> its tf-idf row
    length,               \* string id -> len(string)
    similarity_threshold,
    i,                    \* loop index of the greedy scan (1-based)
    used_indices,
    clusters,             \* the dict: sequence of [key, members] in insertion order
    indicator_to_cluster, \* the returned mapping
    run,                  \* 1 or 2: which direct call is running
    first_order,          \* the ordering of the first direct call
    first_result,         \* the mapping the first direct call returned
    indicator_to_topic,   \* main: indicator -> topic name
    csv_file,             \* outputs/indicator_clusters.csv
    xlsx_file             \* outputs/ToCs_Clustered_with_Topics.xlsx

vars == <<caller, pc, error, input_table, df, indicators, tfidf, length,
          similarity_threshold, i, used_indices, clusters, indicator_to_cluster,
          run, first_order, first_result, indicator_to_topic, csv_file, xlsx_file>>

\* ----------------------------------------------------------------- helpers
Range(s) == {s[k] : k \in DOMAIN s}

EmptyMap == [x \in {} |-> NaN]

Reverse(s) == [k \in 1..Len(s) |-> s[Len(s) + 1 - k]]

MinOf(S) == CHOOSE x \in S : \A y \in S : x <= y

RECURSIVE Ascending(_)
\* The elements of a set of integers as an ascending sequence (np.where order).
Ascending(S) == IF S = {} THEN <<>> ELSE <<MinOf(S)>> \o Ascending(S \ {MinOf(S)})

RECURSIVE DotOver(_, _, _)
DotOver(T, u, v) ==
    IF T = {} THEN 0
    ELSE LET t == CHOOSE x \in T : TRUE
         IN u[t] * v[t] + DotOver(T \ {t}, u, v)

Dot(u, v) == DotOver(Terms, u, v)

IsZeroVector(u) == \A t \in Terms : u[t] = 0

\* cosine_similarity(u, v) >= thr/10, decided exactly on integers:
\* the similarity is dot/(|u||v|), and 0 when either vector is zero.
CosineGE(u, v, thr) ==
    IF thr <= 0 THEN TRUE
    ELSE /\ Dot(u, v) > 0
         /\ 100 * Dot(u, v) * Dot(u, v) >= thr * thr * Dot(u, u) * Dot(v, v)

\* similarity_matrix[a][b] >= similarity_threshold, a and b positions of indicators
SimilarityGE(a, b) ==
    CosineGE(tfidf[indicators[a]], tfidf[indicators[b]], similarity_threshold)

\* TfidfVectorizer.fit_transform raises ValueError("empty vocabulary ...") when no
\* document holds a term: an empty corpus, or stop words only.
EmptyVocabulary == \A k \in 1..Len(indicators) : IsZeroVector(tfidf[indicators[k]])

\* SimilarIndices with a fault: the threshold is ignored (similarity_matrix[a] >= 0)
SimilarIndicesAnyScore(a) == {b \in 1..Len(indicators) : TRUE}

\* np.where(similarity_matrix[a] >= similarity_threshold)[0]
SimilarIndices(a) == {b \in 1..Len(indicators) : SimilarityGE(a, b)}

\* NewMembers with a fault: the used_indices check is missing
NewMembersUnchecked(similar, used) == similar

\* the inner loop's filter: if idx not in used_indices
NewMembers(similar, used) == similar \ used

\* cluster: the indicators of the new members, in index order
ClusterOf(idxs) == [k \in 1..Cardinality(idxs) |-> indicators[Ascending(idxs)[k]]]

\* InsertByLen with a fault: x goes before the elements of its own length (ties reversed)
InsertByLenBeforeTies(sorted, x) ==
    LET k == Cardinality({p \in 1..Len(sorted) : length[sorted[p]] < length[x]})
    IN SubSeq(sorted, 1, k) \o <<x>> \o SubSeq(sorted, k + 1, Len(sorted))

\* list.sort(key=len) is stable: x goes after every element no longer than it
InsertByLen(sorted, x) ==
    LET k == Cardinality({p \in 1..Len(sorted) : length[sorted[p]] <= length[x]})
    IN SubSeq(sorted, 1, k) \o <<x>> \o SubSeq(sorted, k + 1, Len(sorted))

RECURSIVE SortFrom(_, _, _)
SortFrom(s, k, acc) ==
    IF k > Len(s) THEN acc ELSE SortFrom(s, k + 1, InsertByLen(acc, s[k]))

\* SortByLen with a fault: the sort is missing, the anchor's group keeps index order
SortByLenSkipped(cluster) == cluster

\* cluster.sort(key=len)
SortByLen(cluster) == SortFrom(cluster, 1, <<>>)

\* clusters[key] = members: a dict keeps a key's first position on overwrite
DictSet(d, key, members) ==
    IF \E p \in 1..Len(d) : d[p].key = key
    THEN [p \in 1..Len(d) |-> IF d[p].key = key
                              THEN [key |-> key, members |-> members] ELSE d[p]]
    ELSE Append(d, [key |-> key, members |-> members])

\* for member in cluster_members: indicator_to_cluster[member] = representative
AssignAll(m, members, representative) ==
    [x \in DOMAIN m \cup Range(members) |->
        IF x \in Range(members) THEN representative ELSE m[x]]

RECURSIVE FlattenFrom(_, _, _)
FlattenFrom(d, k, m) ==
    IF k > Len(d) THEN m
    ELSE FlattenFrom(d, k + 1, AssignAll(m, d[k].members, d[k].key))

HasTwoMembers(e) == Len(e.members) >= 2

\* Flatten with a fault: groups of one element are left out of the mapping
FlattenGroupsOnly(d) == FlattenFrom(SelectSeq(d, HasTwoMembers), 1, EmptyMap)

\* the mapping from original indicator to cluster representative
Flatten(d) == FlattenFrom(d, 1, EmptyMap)

\* FreshUsedIndices with a fault: used_indices survives from the call before
StaleUsedIndices == used_indices

\* used_indices = set() at the start of every call
FreshUsedIndices == {}

\* ------------------------------------------------------ cluster_indicators
\* preprocess, fit_transform, cosine_similarity, and the initialisation of the scan
Vectorize ==
    /\ pc = "vectorize"
    /\ IF EmptyVocabulary
       THEN /\ pc' = "raised"
            /\ error' = "ValueError"
            /\ UNCHANGED <<i, used_indices, clusters>>
       ELSE /\ pc' = "scan"
            /\ i' = 1
            /\ used_indices' = FreshUsedIndices
            /\ clusters' = <<>>
            /\ UNCHANGED error
    /\ UNCHANGED <<caller, input_table, df, indicators, tfidf, length,
                   similarity_threshold, indicator_to_cluster, run, first_order,
                   first_result, indicator_to_topic, csv_file, xlsx_file>>

\* one iteration of: for i in range(len(indicators))
ScanStep ==
    /\ pc = "scan"
    /\ i <= Len(indicators)
    /\ LET similar == SimilarIndices(i)
           fresh == NewMembers(similar, used_indices)
           cluster == SortByLen(ClusterOf(fresh))
       IN IF i \in used_indices \/ similar = {}
          THEN /\ i' = i + 1
               /\ UNCHANGED <<pc, error, used_indices, clusters>>
          ELSE IF cluster = <<>>
          THEN \* cluster[0] on an empty list
               /\ pc' = "raised"
               /\ error' = "IndexError"
               /\ UNCHANGED <<i, used_indices, clusters>>
          ELSE /\ used_indices' = used_indices \cup fresh
               /\ clusters' = DictSet(clusters, cluster[1], cluster)
               /\ i' = i + 1
               /\ UNCHANGED <<pc, error>>
    /\ UNCHANGED <<caller, input_table, df, indicators, tfidf, length,
                   similarity_threshold, indicator_to_cluster, run, first_order,
                   first_result, indicator_to_topic, csv_file, xlsx_file>>

\* the flattening loop and the return (to main's next statement when main called)
Return ==
    /\ pc = "scan"
    /\ i > Len(indicators)
    /\ indicator_to_cluster' = Flatten(clusters)
    /\ pc' = IF caller = "main" THEN "topic" ELSE "returned"
    /\ UNCHANGED <<caller, error, input_table, df, indicators, tfidf, length,
                   similarity_threshold, i, used_indices, clusters, run, first_order,
                   first_result, indicator_to_topic, csv_file, xlsx_file>>

\* a second direct call on the same strings, in the same or the reversed order
CallAgain ==
    /\ caller = "test"
    /\ pc = "returned"
    /\ run = 1
    /\ \E order \in {indicators, Reverse(indicators)} :
          /\ indicators' = order
          /\ first_order' = indicators
          /\ first_result' = indicator_to_cluster
          /\ run' = 2
          /\ indicator_to_cluster' = EmptyMap
          /\ pc' = "vectorize"
    /\ UNCHANGED <<caller, error, input_table, df, tfidf, length,
                   similarity_threshold, i, used_indices, clusters,
                   indicator_to_topic, csv_file, xlsx_file>>

\* -------------------------------------------------------------------- main
\* A table is its column names and its rows (each row: column name -> cell).
InputColumns == {"Indicator", "Result_Statement"}

NoTable == [columns |-> {}, rows |-> <<>>]

NoFile == [written |-> FALSE, table |-> NoTable, lines |-> {}]

\* df[name] = values: adds the column, or overwrites one of that name
SetColumn(table, name, values) ==
    [columns |-> table.columns \cup {name},
     rows |-> [r \in 1..Len(table.rows) |->
                 [c \in table.columns \cup {name} |->
                     IF c = name THEN values[r] ELSE table.rows[r][c]]]]

Column(table, name) == [r \in 1..Len(table.rows) |-> table.rows[r][name]]

IsNotNaN(v) == v # NaN

\* Series.dropna()
DropNa(col) == SelectSeq(col, IsNotNaN)

RECURSIVE UniqueFrom(_, _, _)
UniqueFrom(col, k, acc) ==
    IF k > Len(col) THEN acc
    ELSE UniqueFrom(col, k + 1, IF col[k] \in Range(acc) THEN acc ELSE Append(acc, col[k]))

\* Series.unique(): the distinct values in order of first appearance
Unique(col) == UniqueFrom(col, 1, <<>>)

\* MapLookup with a fault: a value that is no key of the dict maps to itself
MapLookupOrSelf(m, v) == IF v \in DOMAIN m THEN m[v] ELSE v

\* Series.map(dict): a value that is no key of the dict (NaN included) gives NaN
MapLookup(m, v) == IF v \in DOMAIN m THEN m[v] ELSE NaN

MapColumn(col, m) == [r \in 1..Len(col) |-> MapLookup(m, col[r])]

\* pd.read_excel: fails (missing or malformed file) or yields the table
Load ==
    /\ caller = "main"
    /\ pc = "load"
    /\ \E ok \in BOOLEAN :
          IF ok
          THEN /\ df' = [columns |-> InputColumns, rows |-> input_table]
               /\ pc' = "unique"
               /\ UNCHANGED error
          ELSE /\ pc' = "raised"
               /\ error' = "LoadError"
               /\ UNCHANGED df
    /\ UNCHANGED <<caller, input_table, indicators, tfidf, length,
                   similarity_threshold, i, used_indices, clusters,
                   indicator_to_cluster, run, first_order, first_result,
                   indicator_to_topic, csv_file, xlsx_file>>

\* unique_indicators = df['Indicator'].dropna().unique(), and the call of
\* cluster_indicators(unique_indicators) with the default threshold
UniqueIndicators ==
    /\ caller = "main"
    /\ pc = "unique"
    /\ indicators' = Unique(DropNa(Column(df, "Indicator")))
    /\ similarity_threshold' = DefaultThreshold
    /\ pc' = "vectorize"
    /\ UNCHANGED <<caller, error, input_table, df, tfidf, length, i, used_indices,
                   clusters, indicator_to_cluster, run, first_order, first_result,
                   indicator_to_topic, csv_file, xlsx_file>>

\* min(topic_docs, key=len): the first of the shortest
ShortestFirst(docs) == SortByLen(docs)[1]

\* perform_bertopic_clustering and indicator_to_topic.  The embedding model and
\* HDBSCAN are external: the call fails, or labels the indicators outliers, or puts
\* them in topic 0, named after its shortest matching document when one matches.
TopicAssignment ==
    /\ caller = "main"
    /\ pc = "topic"
    /\ \E ok \in BOOLEAN, topic \in {OutlierTopic, 0}, matched \in BOOLEAN :
          IF ok
          THEN LET name == IF topic = OutlierTopic \/ ~matched
                           THEN OutlierName ELSE ShortestFirst(indicators)
               IN /\ indicator_to_topic' = [s \in Range(indicators) |-> name]
                  /\ pc' = "csv"
                  /\ UNCHANGED error
          ELSE /\ pc' = "raised"
               /\ error' = "TopicError"
               /\ UNCHANGED indicator_to_topic
    /\ UNCHANGED <<caller, input_table, df, indicators, tfidf, length,
                   similarity_threshold, i, used_indices, clusters,
                   indicator_to_cluster, run, first_order, first_result,
                   csv_file, xlsx_file>>

\* mapping_df.to_csv('outputs/indicator_clusters.csv'): fails or writes the pairs
WriteCsv ==
    /\ caller = "main"
    /\ pc = "csv"
    /\ \E ok \in BOOLEAN :
          IF ok
          THEN /\ csv_file' = [written |-> TRUE, table |-> NoTable,
                               lines |-> {<<s, indicator_to_cluster[s]>> :
                                            s \in DOMAIN indicator_to_cluster}]
               /\ pc' = "join"
               /\ UNCHANGED error
          ELSE /\ pc' = "raised"
               /\ error' = "CsvWriteError"
               /\ UNCHANGED csv_file
    /\ UNCHANGED <<caller, input_table, df, indicators, tfidf, length,
                   similarity_threshold, i, used_indices, clusters,
                   indicator_to_cluster, run, first_order, first_result,
                   indicator_to_topic, xlsx_file>>

\* df['Clustered_Indicator'] = ...; df['Topic_Name'] = ...
Join ==
    /\ caller = "main"
    /\ pc = "join"
    /\ LET ind == Column(df, "Indicator")
           withCluster == SetColumn(df, "Clustered_Indicator",
                                    MapColumn(ind, indicator_to_cluster))
       IN df' = SetColumn(withCluster, "Topic_Name",
                          MapColumn(ind, indicator_to_topic))
    /\ pc' = "export"
    /\ UNCHANGED <<caller, error, input_table, indicators, tfidf, length,
                   similarity_threshold, i, used_indices, clusters,
                   indicator_to_cluster, run, first_order, first_result,
                   indicator_to_topic, csv_file, xlsx_file>>

\* df.to_excel('outputs/ToCs_Clustered_with_Topics.xlsx'): fails or writes df
Export ==
    /\ caller = "main"
    /\ pc = "export"
    /\ \E ok \in BOOLEAN :
          IF ok
          THEN /\ xlsx_file' = [written |-> TRUE, table |-> df, lines |-> {}]
               /\ pc' = "done"
               /\ UNCHANGED error
          ELSE /\ pc' = "raised"
               /\ error' = "XlsxWriteError"
               /\ UNCHANGED xlsx_file
    /\ UNCHANGED <<caller, input_table, df, indicators, tfidf, length,
                   similarity_threshold, i, used_indices, clusters,
                   indicator_to_cluster, run, first_order, first_result,
                   indicator_to_topic, csv_file>>

\* ------------------------------------------------------------------- Init
InitTest ==
    /\ caller = "test"
    /\ pc = "vectorize"
    /\ \E n \in 0..MaxN :
          /\ indicators = [k \in 1..n |-> k]
          /\ tfidf \in [1..n -> [Terms -> Weights]]
          /\ length \in [1..n -> 1..MaxLen]
    /\ similarity_threshold \in Thresholds
    /\ input_table = <<>>

MaxOf(S) == CHOOSE x \in S : \A y \in S : x >= y

\* the Indicator column holds NaN or string ids, numbered in order of first
\* appearance (the names of the strings carry no meaning)
FirstAppearanceOrder(col) ==
    \A k \in 1..Len(col) : col[k] <= 1 + MaxOf({0} \cup {col[j] : j \in 1..(k - 1)})

InitMain ==
    /\ caller = "main"
    /\ pc = "load"
    /\ \E r \in 0..MaxRows :
          \E col \in [1..r -> 0..r] :
             /\ FirstAppearanceOrder(col)
             /\ input_table = [k \in 1..r |->
                                 [Indicator |-> col[k], Result_Statement |-> k]]
             /\ LET n == MaxOf({0} \cup Range(col))
                IN /\ tfidf \in [1..n -> [Terms -> Weights]]
                   /\ length \in [1..n -> 1..MaxLen]
    /\ indicators = <<>>
    /\ similarity_threshold = DefaultThreshold

\* what every run starts with
InitLocals ==
    /\ df = NoTable
    /\ error = "none"
    /\ i = 1
    /\ used_indices = {}
    /\ clusters = <<>>
    /\ indicator_to_cluster = EmptyMap
    /\ run = 1
    /\ first_order = <<>>
    /\ first_result = EmptyMap
    /\ indicator_to_topic = EmptyMap
    /\ csv_file = NoFile
    /\ xlsx_file = NoFile

\* one call of cluster_indicators on any input, or one run of main()
Init == (InitTest \/ InitMain) /\ InitLocals

Next ==
    \/ Vectorize
    \/ ScanStep
    \/ Return
    \/ Load
    \/ UniqueIndicators
    \/ TopicAssignment
    \/ WriteCsv
    \/ Join
    \/ Export

Spec == Init /\ [][Next]_vars

\* two calls of cluster_indicators in a row, on the same strings
InitTwoRuns == InitTest /\ InitLocals

NextTwoRuns == Vectorize \/ ScanStep \/ Return \/ CallAgain

SpecTwoRuns == InitTwoRuns /\ [][NextTwoRuns]_vars

\* ------------------------------------------------------- vocabulary of claims
Positions == 1..Len(indicators)

\* the position of string s in the input order
PosOf(s) == CHOOSE k \in Positions : indicators[k] = s

Members(e) == Range(e.members)

Recorded == {clusters[p] : p \in 1..Len(clusters)}

\* the member of a recorded cluster that comes first in input order: the indicator
\* the scan was at when it collected the cluster
AnchorPos(e) == MinOf({PosOf(m) : m \in Members(e)})

\* cluster_indicators has returned its mapping (to the test or to main)
ClusterReturned ==
    /\ pc \in {"returned", "topic", "csv", "join", "export", "done", "raised"}
    /\ error \notin {"ValueError", "IndexError", "LoadError"}

\* a point of the greedy scan, or after it
ScanPoint == pc = "scan" \/ ClusterReturned

\* the grouping a mapping induces on its keys
Grouping(m) == {{x \in DOMAIN m : m[x] = m[y]} : y \in DOMAIN m}

\* the shorter of the strings at positions a and b, the first seen on equal length
ShorterOf(a, b) ==
    IF length[indicators[a]] < length[indicators[b]] THEN indicators[a]
    ELSE IF length[indicators[b]] < length[indicators[a]] THEN indicators[b]
    ELSE indicators[IF a <= b THEN a ELSE b]

\* ------------------------------------------------------------------- claims

\* C1 (as stated): on return, every pair of indicators whose similarity is >= the
\* threshold maps to one representative, the shorter of the two (first seen on a tie).
C1_SimilarPairSharesShorter ==
    ClusterReturned =>
        \A a, b \in Positions :
            (a # b /\ SimilarityGE(a, b)) =>
                /\ indicators[a] \in DOMAIN indicator_to_cluster
                /\ indicators[b] \in DOMAIN indicator_to_cluster
                /\ indicator_to_cluster[indicators[a]] = indicator_to_cluster[indicators[b]]
                /\ indicator_to_cluster[indicators[a]] = ShorterOf(a, b)

\* position a anchored a cluster, and b had not been collected by an earlier anchor
AnchoredPair(a, b) ==
    /\ SimilarityGE(a, b)
    /\ \E e \in Recorded : AnchorPos(e) = a
    /\ ~ \E e \in Recorded : indicators[b] \in Members(e) /\ AnchorPos(e) < a

\* C1 (amended): on return, for every pair with similarity >= the threshold of which
\* one was the indicator the scan stood at, unassigned, while the other was still
\* unassigned, both map to one representative, which is no longer than either of
\* the two and, where it is as long as one of them, not later in input order.
C1_AnchoredPairSharesShortest ==
    ClusterReturned =>
        \A a, b \in Positions :
            AnchoredPair(a, b) =>
                /\ indicators[a] \in DOMAIN indicator_to_cluster
                /\ indicators[b] \in DOMAIN indicator_to_cluster
                /\ indicator_to_cluster[indicators[a]] = indicator_to_cluster[indicators[b]]
                /\ LET rep == indicator_to_cluster[indicators[a]]
                   IN \A x \in {a, b} :
                         /\ length[rep] <= length[indicators[x]]
                         /\ length[rep] = length[indicators[x]] => PosOf(rep) <= x

\* C1 witness: a returned run with an anchored pair of two different indicators whose
\* common representative is a third, shorter indicator.
C1_Witness ==
    /\ ClusterReturned
    /\ \E a, b \in Positions :
          /\ a # b
          /\ AnchoredPair(a, b)
          /\ indicators[a] \in DOMAIN indicator_to_cluster
          /\ indicator_to_cluster[indicators[a]] \notin {indicators[a], indicators[b]}

\* C2: during the scan and on return no two dict keys are equal, no indicator is
\* in the member lists of two keys, and no member list holds an indicator twice.
C2_AtMostOneCluster ==
    ScanPoint =>
        /\ \A p, q \in 1..Len(clusters) :
              p # q => /\ clusters[p].key # clusters[q].key
                       /\ Members(clusters[p]) \cap Members(clusters[q]) = {}
        /\ \A p \in 1..Len(clusters) :
              \A a, b \in 1..Len(clusters[p].members) :
                  a # b => clusters[p].members[a] # clusters[p].members[b]

\* C2 witness: a returned run with two clusters where the later anchor is similar
\* to a member of the earlier cluster (the used_indices check kept it out).
C2_Witness ==
    /\ ClusterReturned
    /\ \E e1, e2 \in Recorded :
          /\ AnchorPos(e1) < AnchorPos(e2)
          /\ \E m \in Members(e1) : SimilarityGE(AnchorPos(e2), PosOf(m))

\* C3 (as stated): any two distinct members of a recorded cluster have similarity
\* >= the threshold.
C3_PairwiseSimilar ==
    ScanPoint =>
        \A e \in Recorded :
            \A x, y \in Members(e) : x # y => SimilarityGE(PosOf(x), PosOf(y))

\* C3 (amended): every member of a recorded cluster has similarity >= the threshold
\* to the indicator that anchored the cluster (its first member in input order).
C3_SimilarToAnchor ==
    ScanPoint =>
        \A e \in Recorded :
            \A x \in Members(e) : SimilarityGE(AnchorPos(e), PosOf(x))

\* C3 witness: a returned run with a cluster holding two members that are not
\* similar to each other.
C3_Witness ==
    /\ ClusterReturned
    /\ \E e \in Recorded :
          \E x, y \in Members(e) : ~SimilarityGE(PosOf(x), PosOf(y))

\* C4: on return, the representative of every mapped indicator is an input indicator,
\* is the key of a cluster that holds both, and is a shortest member of that cluster,
\* the earliest in input order among the shortest.
C4_RepresentativeIsShortest ==
    ClusterReturned =>
        \A x \in DOMAIN indicator_to_cluster :
            LET rep == indicator_to_cluster[x]
            IN /\ rep \in Range(indicators)
               /\ \E e \in Recorded :
                     /\ e.key = rep
                     /\ x \in Members(e)
                     /\ rep \in Members(e)
                     /\ \A m \in Members(e) :
                           /\ length[rep] <= length[m]
                           /\ length[m] = length[rep] => PosOf(rep) <= PosOf(m)

\* C4 witness: a returned run with a cluster whose anchor is not its representative
\* and which holds two members of the shortest length.
C4_Witness ==
    /\ ClusterReturned
    /\ \E e \in Recorded :
          /\ e.key # indicators[AnchorPos(e)]
          /\ e.key \in DOMAIN indicator_to_cluster
          /\ \E m \in Members(e) : m # e.key /\ length[m] = length[e.key]

\* C5 (as stated): on return, an indicator whose collected group has one element is
\* not in the mapping; every mapped indicator is in a group of two or more.
C5_SingletonsOmitted ==
    ClusterReturned =>
        /\ \A e \in Recorded :
              Len(e.members) = 1 => e.members[1] \notin DOMAIN indicator_to_cluster
        /\ \A x \in DOMAIN indicator_to_cluster :
              \E e \in Recorded : x \in Members(e) /\ Len(e.members) >= 2

\* C5 (amended): on return, an indicator whose collected group has one element is in
\* the mapping, mapped to itself; the mapping holds the members of every group.
C5_SingletonsMappedToSelf ==
    ClusterReturned =>
        /\ \A e \in Recorded :
              Len(e.members) = 1 =>
                  /\ e.members[1] \in DOMAIN indicator_to_cluster
                  /\ indicator_to_cluster[e.members[1]] = e.members[1]
        /\ DOMAIN indicator_to_cluster = UNION {Members(e) : e \in Recorded}

\* C5 witness: a returned run that recorded a group of one element beside a group
\* of two or more.
C5_Witness ==
    /\ ClusterReturned
    /\ \E e1, e2 \in Recorded : Len(e1.members) = 1 /\ Len(e2.members) >= 2

\* C6 (as stated): cluster_indicators has no failure outcome; an empty list gives an
\* empty mapping.
C6_NoFailureOutcome ==
    /\ error \notin {"ValueError", "IndexError"}
    /\ (caller = "test" /\ Len(indicators) = 0 /\ pc # "vectorize") =>
           (pc = "returned" /\ indicator_to_cluster = EmptyMap)

\* the stages that fail for reasons outside the program: files and the topic model
EnvironmentErrors == {"LoadError", "TopicError", "CsvWriteError", "XlsxWriteError"}

\* the exported table: the input's rows, every input column unchanged, and the two
\* added columns
ExportedPreservesInput ==
    /\ xlsx_file.written
    /\ Len(xlsx_file.table.rows) = Len(input_table)
    /\ xlsx_file.table.columns = InputColumns \cup {"Clustered_Indicator", "Topic_Name"}
    /\ \A r \in 1..Len(input_table) :
          \A c \in InputColumns : xlsx_file.table.rows[r][c] = input_table[r][c]

\* C7 (as stated): for every input table, the empty one included, main() exports a
\* table with the input's rows and columns unchanged and the two columns added.
C7_ExportPreservesEveryTable ==
    (caller = "main" /\ pc \in {"done", "raised"} /\ error \notin EnvironmentErrors)
        => ExportedPreservesInput

\* C8 (as stated): a run of main() that fails at any stage has written neither file.
C8_NoPartialOutput ==
    (caller = "main" /\ pc = "raised") => (~csv_file.written /\ ~xlsx_file.written)

\* C9: a second run on the same ordering returns the mapping of the first run.
C9_SameOrderSameMapping ==
    (caller = "test" /\ run = 2 /\ pc = "returned" /\ indicators = first_order)
        => indicator_to_cluster = first_result

\* C9 witness: a second run on another ordering of the same indicators returned a
\* mapping that groups them differently from the first run's.
C9_Witness ==
    /\ caller = "test"
    /\ run = 2
    /\ pc = "returned"
    /\ indicators # first_order
    /\ Range(indicators) = Range(first_order)
    /\ Grouping(indicator_to_cluster) # Grouping(first_result)

\* the rows of df after the join
JoinedRows == IF pc \in {"export", "done"} THEN df.rows ELSE <<>>

\* C10: on return the mapping's keys are exactly the indicators whose similarity to
\* themselves is >= the threshold; with a positive threshold a zero-vector indicator
\* is not a key, and its rows get a null Clustered_Indicator in main().
C10_DomainIsSelfSimilar ==
    /\ ClusterReturned =>
          /\ DOMAIN indicator_to_cluster =
                {indicators[k] : k \in {j \in Positions : SimilarityGE(j, j)}}
          /\ similarity_threshold > 0 =>
                \A k \in Positions :
                    IsZeroVector(tfidf[indicators[k]]) =>
                        indicators[k] \notin DOMAIN indicator_to_cluster
    /\ \A r \in 1..Len(JoinedRows) :
          (JoinedRows[r]["Indicator"] # NaN /\ IsZeroVector(tfidf[JoinedRows[r]["Indicator"]]))
              => JoinedRows[r]["Clustered_Indicator"] = NaN

\* C10 witness: main() exported a row whose Indicator is not missing and whose
\* Clustered_Indicator is null.
C10_Witness ==
    /\ pc = "done"
    /\ xlsx_file.written
    /\ \E r \in 1..Len(xlsx_file.table.rows) :
          /\ xlsx_file.table.rows[r]["Indicator"] # NaN
          /\ xlsx_file.table.rows[r]["Clustered_Indicator"] = NaN

\* ---------------------------------------------------------------- lemmas

\* cluster[0] never fails: an anchor with a non-empty similar set is similar to
\* itself (a zero row of the similarity matrix has no entry >= a positive threshold)
AnchorCollectsItself == error # "IndexError"

\* whenever main() does export, the exported table preserves the input
ExportPreservesWhenWritten == xlsx_file.written => ExportedPreservesInput

====
